---- MODULE Spec2Model ----
(***************************************************************************)
(* Deal calculation and reconciliation engine of the dealer management     *)
(* backend: the F&I desking endpoints of backend/server.py (the `deals`    *)
(* collection of Deal documents) and DeskingService of                     *)
(* backend/desking_service.py (DealCalculation documents).                 *)
(*                                                                         *)
(* Money is held in integer cents.  Python computes on floats and rounds   *)
(* with round(x, 2); the model computes the exact rational value and       *)
(* rounds it to the nearest cent, ties to even (at an exact half cent the   *)
(* float may fall on either side; nothing below rests on such a cent).     *)
(* A rational is a pair <<n, d>> in lowest terms with d > 0.  Rates are    *)
(* held as exact rationals as well.  An Optional[T] field is <<>> (None)   *)
(* or <<v>>.                                                               *)
(* uuid4 ids are modelled as fresh tokens: a deal's id is its position in  *)
(* the collection, a VSC option's id is deal * 100 + position.             *)
(* The updated_at / created_at timestamps are not modelled.                *)
(* The signatures collection is only ever counted and searched by request, *)
(* so it is held as a bag of Signature documents.                          *)
(***************************************************************************)
EXTENDS Integers, Sequences, FiniteSets, Bags, TLC

VARIABLES deals, reqs, last, calcs, documents, signature_requests, signatures,
          inflight, issued

vars == <<deals, reqs, last, calcs, documents, signature_requests, signatures,
          inflight, issued>>

(***************************************************************************)
(* Bounds of the model.                                                    *)
(***************************************************************************)
MaxDeals == 1
MaxCreated == 2
MaxCalcs == 2
MaxTaxed == 2
MaxLoanThousands == 60
MaxDocuments == 1
MaxSignatureRequests == 2
MaxSignatures == 3
MaxRequests == 3

(***************************************************************************)
(* Exact arithmetic.                                                       *)
(***************************************************************************)
None == <<>>
Some(v) == <<v>>

Abs(x) == IF x < 0 THEN -x ELSE x

RECURSIVE GCD(_, _)
GCD(a, b) == IF b = 0 THEN a ELSE GCD(b, a % b)

Rat(n, d) ==
    LET g == GCD(Abs(n), Abs(d))
        s == IF d < 0 THEN -1 ELSE 1
    IN  IF n = 0 THEN <<0, 1>> ELSE <<s * (n \div g), s * (d \div g)>>

RatInt(n) == <<n, 1>>

\* a * b, reduced crosswise before multiplying so that products stay small
RatMul(a, b) ==
    LET x == Rat(a[1], b[2])
        y == Rat(b[1], a[2])
    IN  <<x[1] * y[1], x[2] * y[2]>>

RatAdd(a, b) ==
    LET g == GCD(a[2], b[2])
    IN  Rat(a[1] * (b[2] \div g) + b[1] * (a[2] \div g), (a[2] \div g) * b[2])

RatNeg(a) == <<-a[1], a[2]>>
RatSub(a, b) == RatAdd(a, RatNeg(b))
RatDiv(a, b) == RatMul(a, Rat(b[2], b[1]))
RatLess(a, b) == RatSub(a, b)[1] < 0
RatMax(a, b) == IF RatLess(a, b) THEN b ELSE a
RatMin(a, b) == IF RatLess(a, b) THEN a ELSE b

RECURSIVE RatPow(_, _)
RatPow(a, n) == IF n = 0 THEN <<1, 1>> ELSE RatMul(a, RatPow(a, n - 1))

\* Python round(x): nearest integer, ties to the even one
Round(a) ==
    LET q == a[1] \div a[2]
        r == a[1] % a[2]
    IN  IF 2 * r < a[2] THEN q
        ELSE IF 2 * r > a[2] THEN q + 1
        ELSE IF q % 2 = 0 THEN q ELSE q + 1

\* round(x, k) of a value x, given in units u, as an integer number of
\* 10^-k units: scale is 10^k / u
RoundTo(a, scale) == Round(RatMul(a, RatInt(scale)))

(***************************************************************************)
(* backend/server.py: enums and tables                                     *)
(***************************************************************************)
DealStatus == {"pending", "in_progress", "completed", "cancelled"}

VSCCoverage == <<"powertrain", "bumper_to_bumper", "premium">>
VSCTerm == <<"12_months", "24_months", "36_months", "48_months", "60_months">>

\* base_costs as it would be if premium cost what bumper to bumper costs
base_costs_premium_levelled ==
    [c \in {"powertrain", "bumper_to_bumper", "premium"} |->
        CASE c = "powertrain"       -> <<895, 1295, 1695, 2095, 2495>>
          [] c = "bumper_to_bumper" -> <<1495, 1995, 2495, 2995, 3495>>
          [] c = "premium"          -> <<1495, 1995, 2495, 2995, 3495>>]

\* base_costs of generate_vsc_options, in dollars
base_costs ==
    [c \in {"powertrain", "bumper_to_bumper", "premium"} |->
        CASE c = "powertrain"       -> <<895, 1295, 1695, 2095, 2495>>
          [] c = "bumper_to_bumper" -> <<1495, 1995, 2495, 2995, 3495>>
          [] c = "premium"          -> <<1995, 2695, 3395, 4095, 4795>>]

mileage_limits ==
    [c \in {"powertrain", "bumper_to_bumper", "premium"} |->
        CASE c = "powertrain"       -> 100000
          [] c = "bumper_to_bumper" -> 75000
          [] c = "premium"          -> 100000]

\* tax_rates of calculate_sales_tax: rate as a rational, fees in cents
tax_rates ==
    [s \in {"CA", "TX", "FL", "NY"} |->
        CASE s = "CA" -> [sales_tax |-> Rat(725, 10000), title |-> 2300,
                          license |-> 6500, doc |-> 8500]
          [] s = "TX" -> [sales_tax |-> Rat(625, 10000), title |-> 3300,
                          license |-> 5175, doc |-> 15000]
          [] s = "FL" -> [sales_tax |-> Rat(6, 100), title |-> 7725,
                          license |-> 4800, doc |-> 19900]
          [] s = "NY" -> [sales_tax |-> Rat(8, 100), title |-> 5000,
                          license |-> 2500, doc |-> 17500]]

(***************************************************************************)
(* backend/server.py: the calculators                                      *)
(***************************************************************************)
\* calculate_finance_payment(loan_amount, apr, term_months); apr is given in
\* hundredths of a percent.  It raises ZeroDivisionError for a term of 0.
finance_payment_raises(loan_amount, apr, term_months) == term_months = 0

calculate_finance_payment(loan_amount, apr, term_months) ==
    LET monthly_rate == Rat(apr, 120000)
        growth == RatPow(RatAdd(RatInt(1), monthly_rate), term_months)
        monthly_payment ==
            IF apr = 0 THEN Rat(loan_amount, term_months)
            ELSE RatDiv(RatMul(RatInt(loan_amount), RatMul(monthly_rate, growth)),
                        RatSub(growth, RatInt(1)))
        total_interest ==
            IF apr = 0 THEN RatInt(0)
            ELSE RatSub(RatMul(monthly_payment, RatInt(term_months)),
                        RatInt(loan_amount))
    IN  [monthly_payment |-> Round(monthly_payment),
         total_interest |-> Round(total_interest),
         total_cost |-> Round(RatAdd(RatInt(loan_amount), total_interest))]

\* calculate_sales_tax as it would be if every state were taxed as CA
calculate_sales_tax_california(vehicle_price, state) ==
    LET rates == tax_rates["CA"]
        sales_tax_amount == RatMul(RatInt(vehicle_price), rates.sales_tax)
    IN  [sales_tax_rate |-> rates.sales_tax,
         sales_tax_amount |-> Round(sales_tax_amount),
         title_fee |-> rates.title,
         license_fee |-> rates.license,
         doc_fee |-> rates.doc,
         total_fees |-> Round(RatAdd(sales_tax_amount,
                          RatInt(rates.title + rates.license + rates.doc)))]

\* calculate_sales_tax as it would be if a state outside the table were untaxed
calculate_sales_tax_unknown_untaxed(vehicle_price, state) ==
    LET rates == IF state \in DOMAIN tax_rates THEN tax_rates[state]
                 ELSE [sales_tax |-> RatInt(0), title |-> 0, license |-> 0, doc |-> 0]
        sales_tax_amount == RatMul(RatInt(vehicle_price), rates.sales_tax)
    IN  [sales_tax_rate |-> rates.sales_tax,
         sales_tax_amount |-> Round(sales_tax_amount),
         title_fee |-> rates.title,
         license_fee |-> rates.license,
         doc_fee |-> rates.doc,
         total_fees |-> Round(RatAdd(sales_tax_amount,
                          RatInt(rates.title + rates.license + rates.doc)))]

\* calculate_sales_tax(vehicle_price, state)
calculate_sales_tax(vehicle_price, state) ==
    LET rates == IF state \in DOMAIN tax_rates THEN tax_rates[state]
                 ELSE tax_rates["CA"]
        sales_tax_amount == RatMul(RatInt(vehicle_price), rates.sales_tax)
    IN  [sales_tax_rate |-> rates.sales_tax,
         sales_tax_amount |-> Round(sales_tax_amount),
         title_fee |-> rates.title,
         license_fee |-> rates.license,
         doc_fee |-> rates.doc,
         total_fees |-> Round(RatAdd(sales_tax_amount,
                          RatInt(rates.title + rates.license + rates.doc)))]

\* one VSCOption of generate_vsc_options, for coverage ci and term ti
vsc_option(vehicle, deal_no, ci, ti) ==
    LET coverage == VSCCoverage[ci]
        base_cost == RatInt(base_costs[coverage][ti] * 100)
        markup == RatMul(base_cost, Rat(25, 100))
        age_factor == RatMax(Rat(8, 10),
                        RatSub(RatInt(1), Rat((2024 - vehicle.year) * 5, 100)))
        mileage_factor == RatMax(Rat(8, 10),
                        RatSub(RatInt(1), Rat(vehicle.mileage * 2, 1000000)))
        adjusted_cost == RatMul(RatMul(base_cost, age_factor), mileage_factor)
    IN  [id |-> deal_no * 100 + (ci - 1) * 5 + ti,
         coverage_type |-> coverage,
         term |-> VSCTerm[ti],
         mileage_limit |-> mileage_limits[coverage],
         base_cost |-> Round(adjusted_cost),
         markup |-> Round(markup),
         final_price |-> Round(RatAdd(adjusted_cost, markup))]

\* generate_vsc_options as it would be if the last option were left out
generate_vsc_options_short(vehicle, deal_no) ==
    [k \in 1..14 |-> vsc_option(vehicle, deal_no, ((k - 1) \div 5) + 1, ((k - 1) % 5) + 1)]

\* generate_vsc_options(vehicle): coverage-major, term-minor
generate_vsc_options(vehicle, deal_no) ==
    [k \in 1..15 |-> vsc_option(vehicle, deal_no, ((k - 1) \div 5) + 1, ((k - 1) % 5) + 1)]

\* generate_gap_option as it would be if 5% of the loan were not clamped
generate_gap_option_unclamped(loan_amount, vehicle_value, gid) ==
    LET ltv_ratio == IF vehicle_value > 0 THEN Rat(loan_amount, vehicle_value)
                     ELSE RatInt(0)
        base_cost == RatMul(RatInt(loan_amount), Rat(5, 100))
        markup == RatMul(base_cost, Rat(30, 100))
    IN  [id |-> gid,
         base_cost |-> Round(base_cost),
         markup |-> Round(markup),
         final_price |-> Round(RatAdd(base_cost, markup)),
         loan_to_value_ratio |-> RoundTo(ltv_ratio, 10000)]

\* generate_gap_option(loan_amount, vehicle_value); gid is the uuid drawn
generate_gap_option(loan_amount, vehicle_value, gid) ==
    LET ltv_ratio == IF vehicle_value > 0 THEN Rat(loan_amount, vehicle_value)
                     ELSE RatInt(0)
        base_cost == RatMin(RatInt(129500),
                       RatMax(RatInt(69500), RatMul(RatInt(loan_amount), Rat(5, 100))))
        markup == RatMul(base_cost, Rat(30, 100))
    IN  [id |-> gid,
         base_cost |-> Round(base_cost),
         markup |-> Round(markup),
         final_price |-> Round(RatAdd(base_cost, markup)),
         loan_to_value_ratio |-> RoundTo(ltv_ratio, 10000)]

(***************************************************************************)
(* backend/server.py: requests                                             *)
(***************************************************************************)
VehicleA == [year |-> 2022, mileage |-> 5000, selling_price |-> 2500000]
VehicleB == [year |-> 2015, mileage |-> 120000, selling_price |-> 2000000]

\* TradeIn as sent by the caller: net_trade_value is a required field
TradeInOf(estimated_value, payoff_amount, net_trade_value) ==
    [estimated_value |-> estimated_value, payoff_amount |-> payoff_amount,
     net_trade_value |-> net_trade_value]

TradeIns ==
    {None,
     Some(TradeInOf(1500000, 1000000, 500000)),
     Some(TradeInOf(1500000, 1000000, 0)),
     Some(TradeInOf(1500000, 1000000, 1500000)),
     Some(TradeInOf(1000000, 1500000, 0)),
     Some(TradeInOf(1000000, 1500000, -500000))}

\* DealCreate bodies; customer.state is Optional[str]
DealCreateOf(state, vehicle, trade_in) ==
    [customer |-> [state |-> state], vehicle |-> vehicle, trade_in |-> trade_in]

AllDealCreates ==
    {DealCreateOf(s, v, t) : s \in {Some("CA"), Some("TX")},
                             v \in {VehicleA, VehicleB}, t \in TradeIns}

\* DealCreate bodies for customers of every state of the table, of a state
\* outside it, of the empty state and of no state
TaxDealCreates ==
    {DealCreateOf(s, v, t) :
        s \in {Some("CA"), Some("TX"), Some("FL"), Some("NY"), Some("ZZ"), Some(""), None},
        v \in {VehicleA, VehicleB},
        t \in {None, Some(TradeInOf(1500000, 1000000, 0))}}

\* the request the deals of Spec are created from; SpecCreate takes them all
DealCreates ==
    {DealCreateOf(Some("CA"), VehicleA, Some(TradeInOf(1500000, 1000000, 0)))}

\* FinanceCalculationRequest bodies; apr in hundredths of a percent
FinanceRequests ==
    {[loan_amount |-> 2000000, apr |-> 1200, term_months |-> 2, down_payment |-> 500000],
     [loan_amount |-> 2000000, apr |-> 0, term_months |-> 0, down_payment |-> 0]}

\* ids a request can address: a deal exists or has not been created yet
DealIds == 1..MaxDeals

\* selected_vsc_id of a MenuSelectionRequest for a deal: None, the id of the
\* bumper-to-bumper 36 months option of the deal's menu, and an id in no menu
VscIds(deal_id) == {None, Some(deal_id * 100 + 8), Some(999)}

\* uuid drawn for a generated GAPOption
GapIds == {901}

(***************************************************************************)
(* backend/server.py: the deals collection and its endpoints               *)
(***************************************************************************)
Exists(deal_id) == deal_id \in 1..Len(deals)

Reply(op, deal_id, vsc, code, again) ==
    [op |-> op, deal_id |-> deal_id, vsc |-> vsc, code |-> code, again |-> again]

\* new_deal as it would be if it kept the net_trade_value the caller sent
new_deal_trusting_caller(deal_data, deal_no) ==
    LET customer_state == IF deal_data.customer.state \in {None, Some("")} THEN "CA"
                          ELSE deal_data.customer.state[1]
        tax_calc == calculate_sales_tax(deal_data.vehicle.selling_price, customer_state)
        net_trade_value ==
            IF deal_data.trade_in # None THEN deal_data.trade_in[1].net_trade_value ELSE 0
        total_vehicle_price == deal_data.vehicle.selling_price - net_trade_value
        total_fees_taxes == tax_calc.total_fees
    IN  [id |-> deal_no,
         status |-> "pending",
         customer |-> deal_data.customer,
         vehicle |-> deal_data.vehicle,
         trade_in |-> deal_data.trade_in,
         finance_terms |-> None,
         tax_calculation |-> tax_calc,
         vsc_options |-> generate_vsc_options(deal_data.vehicle, deal_no),
         selected_vsc |-> None,
         gap_option |-> None,
         documents |-> <<>>,
         docs_generated |-> FALSE,
         total_vehicle_price |-> total_vehicle_price,
         total_fees_taxes |-> total_fees_taxes,
         total_fi_products |-> 0,
         total_deal_amount |-> total_vehicle_price + total_fees_taxes]

\* the Deal built by create_deal for the request deal_data
new_deal(deal_data, deal_no) ==
    LET customer_state == IF deal_data.customer.state \in {None, Some("")} THEN "CA"
                          ELSE deal_data.customer.state[1]
        tax_calc == calculate_sales_tax(deal_data.vehicle.selling_price, customer_state)
        net_trade_value ==
            IF deal_data.trade_in # None
            THEN deal_data.trade_in[1].estimated_value - deal_data.trade_in[1].payoff_amount
            ELSE 0
        trade_in ==
            IF deal_data.trade_in # None
            THEN Some([deal_data.trade_in[1] EXCEPT !.net_trade_value = net_trade_value])
            ELSE None
        total_vehicle_price == deal_data.vehicle.selling_price - net_trade_value
        total_fees_taxes == tax_calc.total_fees
    IN  [id |-> deal_no,
         status |-> "pending",
         customer |-> deal_data.customer,
         vehicle |-> deal_data.vehicle,
         trade_in |-> trade_in,
         finance_terms |-> None,
         tax_calculation |-> tax_calc,
         vsc_options |-> generate_vsc_options(deal_data.vehicle, deal_no),
         selected_vsc |-> None,
         gap_option |-> None,
         documents |-> <<>>,
         docs_generated |-> FALSE,
         total_vehicle_price |-> total_vehicle_price,
         total_fees_taxes |-> total_fees_taxes,
         total_fi_products |-> 0,
         total_deal_amount |-> total_vehicle_price + total_fees_taxes]

\* POST /deals
create_deal(deal_data, cap) ==
    /\ Len(deals) < cap
    /\ deals' = Append(deals, new_deal(deal_data, Len(deals) + 1))
    /\ reqs' = Append(reqs, deal_data)
    /\ last' = Reply("create_deal", Len(deals) + 1, None, 200, FALSE)
    /\ UNCHANGED <<calcs, documents, signature_requests, signatures, inflight, issued>>

\* PUT /deals/{deal_id}/status
update_deal_status(deal_id, status) ==
    /\ IF Exists(deal_id)
       THEN /\ deals' = [deals EXCEPT ![deal_id].status = status]
            /\ last' = Reply("update_deal_status", deal_id, None, 200, FALSE)
       ELSE /\ deals' = deals
            /\ last' = Reply("update_deal_status", deal_id, None, 404, FALSE)
    /\ UNCHANGED <<reqs, calcs, documents, signature_requests, signatures, inflight, issued>>

\* the FinanceTerms built by add_finance_terms
new_finance_terms(finance_request) ==
    LET calc == calculate_finance_payment(finance_request.loan_amount,
                    finance_request.apr, finance_request.term_months)
    IN  [loan_amount |-> finance_request.loan_amount,
         apr |-> finance_request.apr,
         term_months |-> finance_request.term_months,
         monthly_payment |-> calc.monthly_payment,
         total_interest |-> calc.total_interest,
         total_cost |-> calc.total_cost,
         down_payment |-> finance_request.down_payment]

\* add_finance_terms as it would be if attaching terms moved the deal on
add_finance_terms_advancing(deal_id, finance_request) ==
    /\ IF finance_payment_raises(finance_request.loan_amount, finance_request.apr,
                                 finance_request.term_months)
       THEN /\ deals' = deals
            /\ last' = Reply("add_finance_terms", deal_id, None, 500, FALSE)
       ELSE IF Exists(deal_id)
       THEN /\ deals' = [deals EXCEPT ![deal_id].finance_terms =
                                        Some(new_finance_terms(finance_request)),
                                      ![deal_id].status = "in_progress"]
            /\ last' = Reply("add_finance_terms", deal_id, None, 200, FALSE)
       ELSE /\ deals' = deals
            /\ last' = Reply("add_finance_terms", deal_id, None, 404, FALSE)
    /\ UNCHANGED <<reqs, calcs, documents, signature_requests, signatures, inflight, issued>>

\* POST /deals/{deal_id}/finance
add_finance_terms(deal_id, finance_request) ==
    /\ IF finance_payment_raises(finance_request.loan_amount, finance_request.apr,
                                 finance_request.term_months)
       THEN /\ deals' = deals
            /\ last' = Reply("add_finance_terms", deal_id, None, 500, FALSE)
       ELSE IF Exists(deal_id)
       THEN /\ deals' = [deals EXCEPT ![deal_id].finance_terms =
                                        Some(new_finance_terms(finance_request))]
            /\ last' = Reply("add_finance_terms", deal_id, None, 200, FALSE)
       ELSE /\ deals' = deals
            /\ last' = Reply("add_finance_terms", deal_id, None, 404, FALSE)
    /\ UNCHANGED <<reqs, calcs, documents, signature_requests, signatures, inflight, issued>>

\* the price update_menu_selection adds for the selected VSC
selected_vsc_price(deal_obj, selected_vsc_id) ==
    LET found == {k \in 1..Len(deal_obj.vsc_options) :
                    Some(deal_obj.vsc_options[k].id) = selected_vsc_id}
    IN  IF selected_vsc_id # None /\ found # {}
        THEN deal_obj.vsc_options[CHOOSE k \in found : \A j \in found : k <= j].final_price
        ELSE 0

\* the loan amount the GAP option is priced on
gap_loan_amount(deal_obj) ==
    IF deal_obj.finance_terms # None THEN deal_obj.finance_terms[1].loan_amount
    ELSE deal_obj.total_vehicle_price + deal_obj.total_fees_taxes

\* menu_selected as it would be if total_deal_amount were left out of the update
menu_selected_stale_total(deal_obj, selected_vsc_id, include_gap, gid) ==
    LET gap_option ==
            IF include_gap
            THEN Some(generate_gap_option(gap_loan_amount(deal_obj),
                                          deal_obj.vehicle.selling_price, gid))
            ELSE None
        fi_total == selected_vsc_price(deal_obj, selected_vsc_id)
                    + (IF include_gap THEN gap_option[1].final_price ELSE 0)
    IN  [deal_obj EXCEPT !.selected_vsc = selected_vsc_id,
                         !.gap_option = gap_option,
                         !.total_fi_products = fi_total]

\* menu_selected as it would be if the GAP price were not added to fi_total
menu_selected_gap_unpriced(deal_obj, selected_vsc_id, include_gap, gid) ==
    LET gap_option ==
            IF include_gap
            THEN Some(generate_gap_option(gap_loan_amount(deal_obj),
                                          deal_obj.vehicle.selling_price, gid))
            ELSE None
        fi_total == selected_vsc_price(deal_obj, selected_vsc_id)
    IN  [deal_obj EXCEPT !.selected_vsc = selected_vsc_id,
                         !.gap_option = gap_option,
                         !.total_fi_products = fi_total,
                         !.total_deal_amount = deal_obj.total_vehicle_price
                                               + deal_obj.total_fees_taxes + fi_total]

\* menu_selected as it would be if fi_total started from the stored total
menu_selected_adding(deal_obj, selected_vsc_id, include_gap, gid) ==
    LET gap_option ==
            IF include_gap
            THEN Some(generate_gap_option(gap_loan_amount(deal_obj),
                                          deal_obj.vehicle.selling_price, gid))
            ELSE None
        fi_total == deal_obj.total_fi_products
                    + selected_vsc_price(deal_obj, selected_vsc_id)
                    + (IF include_gap THEN gap_option[1].final_price ELSE 0)
    IN  [deal_obj EXCEPT !.selected_vsc = selected_vsc_id,
                         !.gap_option = gap_option,
                         !.total_fi_products = fi_total,
                         !.total_deal_amount = deal_obj.total_vehicle_price
                                               + deal_obj.total_fees_taxes + fi_total]

\* the document update_menu_selection writes back for the deal it read
menu_selected(deal_obj, selected_vsc_id, include_gap, gid) ==
    LET gap_option ==
            IF include_gap
            THEN Some(generate_gap_option(gap_loan_amount(deal_obj),
                                          deal_obj.vehicle.selling_price, gid))
            ELSE None
        fi_total == selected_vsc_price(deal_obj, selected_vsc_id)
                    + (IF include_gap THEN gap_option[1].final_price ELSE 0)
    IN  [deal_obj EXCEPT !.selected_vsc = selected_vsc_id,
                         !.gap_option = gap_option,
                         !.total_fi_products = fi_total,
                         !.total_deal_amount = deal_obj.total_vehicle_price
                                               + deal_obj.total_fees_taxes + fi_total]

\* POST /deals/{deal_id}/menu-selection
update_menu_selection(deal_id, selected_vsc_id, include_gap, gid) ==
    /\ IF Exists(deal_id)
       THEN /\ deals' = [deals EXCEPT ![deal_id] =
                            menu_selected(deals[deal_id], selected_vsc_id, include_gap, gid)]
            /\ last' = Reply("update_menu_selection", deal_id, selected_vsc_id, 200,
                             /\ last.op = "update_menu_selection"
                             /\ last.deal_id = deal_id
                             /\ last.code = 200
                             /\ deals'[deal_id] # deals[deal_id])
       ELSE /\ deals' = deals
            /\ last' = Reply("update_menu_selection", deal_id, selected_vsc_id, 404, FALSE)
    /\ UNCHANGED <<reqs, calcs, documents, signature_requests, signatures, inflight, issued>>

\* a reply that carries a body
ReplyWith(op, deal_id, code, body) ==
    [op |-> op, deal_id |-> deal_id, vsc |-> None, code |-> code, again |-> FALSE,
     body |-> body]

\* GET /deals/{deal_id}
get_deal(deal_id) ==
    /\ last' = IF Exists(deal_id) THEN ReplyWith("get_deal", deal_id, 200, deals[deal_id])
               ELSE Reply("get_deal", deal_id, None, 404, FALSE)
    /\ UNCHANGED <<deals, reqs, calcs, documents, signature_requests, signatures,
                   inflight, issued>>

\* the menu get_deal_menu returns for the deal it read
deal_menu(deal_obj, gid) ==
    [deal_id |-> deal_obj.id,
     vsc_options |-> deal_obj.vsc_options,
     gap_option |-> generate_gap_option(gap_loan_amount(deal_obj),
                                        deal_obj.vehicle.selling_price, gid),
     selected_vsc |-> deal_obj.selected_vsc,
     has_gap |-> deal_obj.gap_option # None]

\* GET /deals/{deal_id}/menu
get_deal_menu(deal_id, gid) ==
    /\ last' = IF Exists(deal_id)
               THEN ReplyWith("get_deal_menu", deal_id, 200, deal_menu(deals[deal_id], gid))
               ELSE Reply("get_deal_menu", deal_id, None, 404, FALSE)
    /\ UNCHANGED <<deals, reqs, calcs, documents, signature_requests, signatures,
                   inflight, issued>>

(***************************************************************************)
(* backend/server.py: requests on one deal running concurrently            *)
(* update_menu_selection awaits find_one, computes on the Deal it read and *)
(* awaits update_one: other requests run between the two.                  *)
(* add_finance_terms awaits one update_one only.  `issued` lists the       *)
(* requests in the order they began, `inflight` holds the menu selections  *)
(* that have read and not yet written.                                     *)
(***************************************************************************)
\* update_menu_selection up to its find_one
menu_selection_read(deal_id, selection) ==
    /\ Len(issued) < MaxRequests
    /\ IF Exists(deal_id)
       THEN /\ inflight' = inflight \cup
                   {[no |-> Len(issued) + 1, deal_id |-> deal_id,
                     selection |-> selection, deal_obj |-> deals[deal_id]]}
            /\ issued' = Append(issued, [kind |-> "menu", deal_id |-> deal_id,
                                         selection |-> selection])
            /\ last' = Reply("update_menu_selection_read", deal_id,
                             selection.selected_vsc_id, 0, FALSE)
       ELSE /\ UNCHANGED <<inflight, issued>>
            /\ last' = Reply("update_menu_selection", deal_id,
                             selection.selected_vsc_id, 404, FALSE)
    /\ UNCHANGED <<deals, reqs, calcs, documents, signature_requests, signatures>>

\* the stored document after the $set of update_data computed on deal_obj
menu_update_set(stored, deal_obj, selection, gid) ==
    LET computed == menu_selected(deal_obj, selection.selected_vsc_id,
                                  selection.include_gap, gid)
    IN  [stored EXCEPT !.selected_vsc = computed.selected_vsc,
                       !.gap_option = computed.gap_option,
                       !.total_fi_products = computed.total_fi_products,
                       !.total_deal_amount = computed.total_deal_amount]

\* menu_selection_write as it would be if the Deal read were written back whole
menu_selection_write_whole(request, gid) ==
    /\ request \in inflight
    /\ deals' = [deals EXCEPT ![request.deal_id] =
                    menu_selected(request.deal_obj, request.selection.selected_vsc_id,
                                  request.selection.include_gap, gid)]
    /\ inflight' = inflight \ {request}
    /\ last' = ReplyWith("update_menu_selection", request.deal_id, 200,
                         [stale |-> request.deal_obj # deals[request.deal_id]])
    /\ UNCHANGED <<reqs, calcs, documents, signature_requests, signatures, issued>>

\* update_menu_selection from its find_one on: the update_one and the reply;
\* stale tells that the deal changed since it was read
menu_selection_write(request, gid) ==
    /\ request \in inflight
    /\ deals' = [deals EXCEPT ![request.deal_id] =
                    menu_update_set(deals[request.deal_id], request.deal_obj,
                                    request.selection, gid)]
    /\ inflight' = inflight \ {request}
    /\ last' = ReplyWith("update_menu_selection", request.deal_id, 200,
                         [stale |-> request.deal_obj # deals[request.deal_id]])
    /\ UNCHANGED <<reqs, calcs, documents, signature_requests, signatures, issued>>

\* add_finance_terms among the concurrent requests
finance_terms_write(deal_id, finance_request) ==
    /\ Len(issued) < MaxRequests
    /\ ~finance_payment_raises(finance_request.loan_amount, finance_request.apr,
                               finance_request.term_months)
    /\ IF Exists(deal_id)
       THEN /\ deals' = [deals EXCEPT ![deal_id].finance_terms =
                                        Some(new_finance_terms(finance_request))]
            /\ issued' = Append(issued, [kind |-> "finance", deal_id |-> deal_id,
                                         finance_request |-> finance_request])
            /\ last' = Reply("add_finance_terms", deal_id, None, 200, FALSE)
       ELSE /\ UNCHANGED <<deals, issued>>
            /\ last' = Reply("add_finance_terms", deal_id, None, 404, FALSE)
    /\ UNCHANGED <<reqs, calcs, documents, signature_requests, signatures, inflight>>

\* the concurrent requests: they address the first deal
ConcurrentSelections ==
    {[selected_vsc_id |-> Some(108), include_gap |-> TRUE],
     [selected_vsc_id |-> None, include_gap |-> TRUE],
     [selected_vsc_id |-> None, include_gap |-> FALSE]}
ConcurrentFinanceRequests ==
    {[loan_amount |-> 2000000, apr |-> 1200, term_months |-> 2, down_payment |-> 500000],
     [loan_amount |-> 500000, apr |-> 0, term_months |-> 12, down_payment |-> 0]}

(***************************************************************************)
(* backend/server.py: documents and e-signatures                           *)
(* An HTTPException raised inside the handlers' try block is caught by     *)
(* their `except Exception` and answered with 400.                         *)
(***************************************************************************)
DocumentStatus == {"draft", "generated", "sent_for_signature", "signed", "finalized"}

\* the GeneratedDocument inserted for a document type
new_document(deal_id, doc_type, doc_no) ==
    [id |-> doc_no, deal_id |-> deal_id, document_type |-> doc_type,
     status |-> "generated", signature_required |-> TRUE]

\* POST /deals/{deal_id}/documents/generate
generate_deal_documents(deal_id, document_types) ==
    /\ Len(documents) + Len(document_types) <= MaxDocuments
    /\ IF Exists(deal_id)
       THEN LET generated_docs ==
                    [k \in 1..Len(document_types) |->
                        new_document(deal_id, document_types[k], Len(documents) + k)]
                doc_ids == [k \in 1..Len(generated_docs) |-> generated_docs[k].id]
            IN  /\ documents' = documents \o generated_docs
                /\ deals' = [deals EXCEPT ![deal_id].documents = @ \o doc_ids,
                                          ![deal_id].docs_generated = TRUE]
                /\ last' = Reply("generate_deal_documents", deal_id, None, 200, FALSE)
       ELSE /\ UNCHANGED <<documents, deals>>
            /\ last' = Reply("generate_deal_documents", deal_id, None, 400, FALSE)
    /\ UNCHANGED <<reqs, calcs, signature_requests, signatures, inflight, issued>>

\* POST /documents/{document_id}/signature-request; signers holds the
\* e-mail address of each dict of signature_data["signers"]
create_signature_request(document_id, signers) ==
    /\ Len(signature_requests) < MaxSignatureRequests
    /\ IF document_id \in 1..Len(documents)
       THEN /\ signature_requests' =
                 Append(signature_requests,
                        [id |-> Len(signature_requests) + 1,
                         document_id |-> document_id,
                         deal_id |-> documents[document_id].deal_id,
                         signers |-> signers,
                         status |-> "pending"])
            /\ documents' = [documents EXCEPT ![document_id].status = "sent_for_signature"]
            /\ last' = Reply("create_signature_request", Len(signature_requests) + 1,
                             None, 200, FALSE)
       ELSE /\ UNCHANGED <<signature_requests, documents>>
            /\ last' = Reply("create_signature_request", 0, None, 400, FALSE)
    /\ UNCHANGED <<deals, reqs, calcs, signatures, inflight, issued>>

\* the signatures stored for a signature request
signatures_of(all, request_id) ==
    {sig \in BagToSet(all) : sig.signature_request_id = request_id}

\* len(all_signatures) of sign_document
count_signatures(all, request_id) ==
    LET sigs == signatures_of(all, request_id)
        RECURSIVE Total(_)
        Total(rest) == IF rest = {} THEN 0
                       ELSE LET sig == CHOOSE x \in rest : TRUE
                            IN  CopiesIn(sig, all) + Total(rest \ {sig})
    IN  Total(sigs)

\* POST /signature-requests/{request_id}/sign
sign_document(request_id, signer_email) ==
    /\ BagCardinality(signatures) < MaxSignatures
    /\ IF request_id \in 1..Len(signature_requests)
       THEN LET signature_request == signature_requests[request_id]
                signature == [signature_request_id |-> request_id,
                              document_id |-> signature_request.document_id,
                              signer_email |-> signer_email]
                all_signatures == signatures (+) SetToBag({signature})
                required_signers == Len(signature_request.signers)
            IN  /\ signatures' = all_signatures
                /\ IF count_signatures(all_signatures, request_id) >= required_signers
                   THEN /\ signature_requests' =
                             [signature_requests EXCEPT ![request_id].status = "completed"]
                        /\ documents' =
                             [documents EXCEPT ![signature_request.document_id].status =
                                                   "signed"]
                   ELSE UNCHANGED <<signature_requests, documents>>
                /\ last' = Reply("sign_document", request_id, None, 200, FALSE)
       ELSE /\ UNCHANGED <<signatures, signature_requests, documents>>
            /\ last' = Reply("sign_document", request_id, None, 400, FALSE)
    /\ UNCHANGED <<deals, reqs, calcs, inflight, issued>>

\* the requests of the e-signature endpoints
DocumentTypeLists == {<<"purchase_agreement">>}
DocumentIds == 1..MaxDocuments
SignerLists == {<<"customer@example.com", "dealer@example.com">>}
SignatureRequestIds == 1..MaxSignatureRequests
SignerEmails == {"customer@example.com", "dealer@example.com", "other@example.com"}

\* the loan amounts and vehicle values GAP is quoted for: every whole
\* thousand of dollars, the two ends of the 5% range, and an amount whose 5%
\* is not a whole cent
GapLoans == {k * 100000 : k \in 0..MaxLoanThousands} \cup {1390000, 2590000, 2000008}
GapVehicleValues == {0, 2500000}

\* a call of generate_gap_option(loan_amount, vehicle_value)
gap_quote(loan_amount, vehicle_value, gid) ==
    /\ last' = ReplyWith("generate_gap_option", 0, 200,
                         [loan_amount |-> loan_amount, vehicle_value |-> vehicle_value,
                          gap_option |-> generate_gap_option(loan_amount, vehicle_value, gid)])
    /\ UNCHANGED <<deals, reqs, calcs, documents, signature_requests, signatures,
                   inflight, issued>>

(***************************************************************************)
(* backend/desking_service.py: DeskingService                              *)
(* The derived fields of a DealCalculation are not all rounded by the code *)
(* and are held as rationals of cents.  interest_rate is in hundredths of  *)
(* a percent, residual_percentage in percent, tax_rate a rational percent. *)
(***************************************************************************)
DealType == {"cash", "finance", "lease"}
PaymentFrequency == {"monthly", "biweekly", "weekly"}

periods_per_year ==
    [f \in PaymentFrequency |->
        CASE f = "monthly" -> 12 [] f = "biweekly" -> 26 [] f = "weekly" -> 52]

\* DeskingService.calculate_finance_payment raises ZeroDivisionError
DeskingService_finance_payment_raises(principal, rate, months, frequency) == months = 0

\* DeskingService.calculate_finance_payment; the requests of the model keep
\* total_periods a whole number
DeskingService_calculate_finance_payment(principal, rate, months, frequency) ==
    LET period_rate == Rat(rate, 10000 * periods_per_year[frequency])
        total_periods == Rat(months * periods_per_year[frequency], 12)
        growth == RatPow(RatAdd(RatInt(1), period_rate), total_periods[1])
        payment ==
            IF period_rate[1] > 0
            THEN RatDiv(RatMul(RatInt(principal), RatMul(period_rate, growth)),
                        RatSub(growth, RatInt(1)))
            ELSE RatDiv(RatInt(principal), total_periods)
    IN  IF rate = 0 THEN Rat(principal, months)
        ELSE RatInt(Round(payment))

\* DeskingService.calculate_lease_payment raises ZeroDivisionError
lease_payment_raises(lease_terms) == lease_terms.term_months = 0

\* DeskingService.calculate_lease_payment: the payment and the details
calculate_lease_payment(lease_terms) ==
    LET adjusted_cap_cost == lease_terms.cap_cost - lease_terms.down_payment
        residual_value == RatMul(RatInt(lease_terms.msrp),
                                 Rat(lease_terms.residual_percentage, 100))
        depreciation == RatSub(RatInt(adjusted_cap_cost), residual_value)
        monthly_depreciation == RatDiv(depreciation, RatInt(lease_terms.term_months))
        monthly_finance == RatMul(RatAdd(RatInt(adjusted_cap_cost), residual_value),
                                  lease_terms.money_factor)
        base_payment == RatAdd(monthly_depreciation, monthly_finance)
    IN  [payment |-> Round(base_payment),
         adjusted_cap_cost |-> adjusted_cap_cost,
         residual_value |-> residual_value,
         depreciation |-> depreciation,
         monthly_depreciation |-> monthly_depreciation,
         monthly_finance |-> monthly_finance,
         acquisition_fee |-> lease_terms.acquisition_fee,
         disposition_fee |-> lease_terms.disposition_fee]

\* DeskingService.calculate_tax_amount
calculate_tax_amount(taxable_amount, tax_info) ==
    Round(RatMul(RatInt(taxable_amount), RatMul(tax_info.tax_rate, Rat(1, 100))))

RECURSIVE SumOver(_, _)
SumOver(products, field) ==
    IF products = <<>> THEN 0
    ELSE Head(products)[field] + SumOver(Tail(products), field)

\* _calculate_dealer_profit as it would be without the finance reserve
_calculate_dealer_profit_no_reserve(deal) ==
    LET front_end == deal.dealer_discount * (-1)
        fi_profit == SumOver(deal.fi_products, "customer_price")
                     - SumOver(deal.fi_products, "dealer_cost")
        finance_reserve ==
            IF deal.deal_type = "finance" /\ deal.finance_terms # None
            THEN RatInt(0)
            ELSE RatInt(0)
    IN  RatInt(Round(RatAdd(RatInt(front_end + fi_profit), finance_reserve)))

\* DeskingService._calculate_dealer_profit
_calculate_dealer_profit(deal) ==
    LET front_end == deal.dealer_discount * (-1)
        fi_profit == SumOver(deal.fi_products, "customer_price")
                     - SumOver(deal.fi_products, "dealer_cost")
        finance_reserve ==
            IF deal.deal_type = "finance" /\ deal.finance_terms # None
            THEN RatMul(deal.total_amount_financed, Rat(15, 1000))
            ELSE RatInt(0)
    IN  RatInt(Round(RatAdd(RatInt(front_end + fi_profit), finance_reserve)))

\* calculate_deal raises: a payment calculator divides by zero
calculate_deal_raises(deal_data) ==
    \/ /\ deal_data.deal_type = "finance"
       /\ deal_data.finance_terms # None
       /\ DeskingService_finance_payment_raises(0, deal_data.finance_terms[1].interest_rate,
              deal_data.finance_terms[1].term_months,
              deal_data.finance_terms[1].payment_frequency)
    \/ /\ deal_data.deal_type = "lease"
       /\ deal_data.lease_terms # None
       /\ lease_payment_raises(deal_data.lease_terms[1])

\* calculated_deal as it would be if the down payment were financed as well
calculated_deal_financing_down(deal_data, deal_no) ==
    LET trade_in ==
            IF deal_data.trade_in # None
            THEN Some([deal_data.trade_in[1] EXCEPT !.net_trade_value =
                        IF deal_data.trade_in[1].estimated_value
                             - deal_data.trade_in[1].payoff_amount > 0
                        THEN deal_data.trade_in[1].estimated_value
                             - deal_data.trade_in[1].payoff_amount
                        ELSE 0])
            ELSE None
        fi_total == SumOver(deal_data.fi_products, "customer_price")
        adjusted_price ==
            deal_data.vehicle_price - deal_data.dealer_discount - deal_data.rebates
            - (IF trade_in # None THEN trade_in[1].net_trade_value ELSE 0)
            + fi_total
        tax_amount == calculate_tax_amount(adjusted_price, deal_data.tax_info)
        total_with_tax == adjusted_price + tax_amount + deal_data.tax_info.doc_fee
        deal == [deal_data EXCEPT !.trade_in = trade_in]
        financed ==
            LET terms == deal.finance_terms[1]
                amount_financed == total_with_tax
                monthly_payment == DeskingService_calculate_finance_payment(
                    amount_financed, terms.interest_rate, terms.term_months,
                    terms.payment_frequency)
                total_payments == Rat(terms.term_months
                                        * periods_per_year[terms.payment_frequency], 12)
            IN  [deal EXCEPT !.total_amount_financed = RatInt(amount_financed),
                             !.monthly_payment = monthly_payment,
                             !.total_cost = RatAdd(RatMul(monthly_payment, total_payments),
                                                   RatInt(terms.down_payment))]
        leased ==
            LET terms == deal.lease_terms[1]
                lease_payment == calculate_lease_payment(terms).payment
            IN  [deal EXCEPT !.monthly_payment = RatInt(lease_payment),
                             !.total_cost = RatInt(lease_payment * terms.term_months
                                                   + terms.down_payment
                                                   + terms.acquisition_fee)]
        priced ==
            IF deal.deal_type = "cash"
            THEN [deal EXCEPT !.total_cost = RatInt(total_with_tax),
                              !.monthly_payment = RatInt(0)]
            ELSE IF deal.deal_type = "finance" /\ deal.finance_terms # None THEN financed
            ELSE IF deal.deal_type = "lease" /\ deal.lease_terms # None THEN leased
            ELSE deal
    IN  [priced EXCEPT !.id = deal_no,
                       !.dealer_profit = _calculate_dealer_profit(priced)]

\* the DealCalculation that calculate_deal stores for deal_data
calculated_deal(deal_data, deal_no) ==
    LET trade_in ==
            IF deal_data.trade_in # None
            THEN Some([deal_data.trade_in[1] EXCEPT !.net_trade_value =
                        IF deal_data.trade_in[1].estimated_value
                             - deal_data.trade_in[1].payoff_amount > 0
                        THEN deal_data.trade_in[1].estimated_value
                             - deal_data.trade_in[1].payoff_amount
                        ELSE 0])
            ELSE None
        fi_total == SumOver(deal_data.fi_products, "customer_price")
        adjusted_price ==
            deal_data.vehicle_price - deal_data.dealer_discount - deal_data.rebates
            - (IF trade_in # None THEN trade_in[1].net_trade_value ELSE 0)
            + fi_total
        tax_amount == calculate_tax_amount(adjusted_price, deal_data.tax_info)
        total_with_tax == adjusted_price + tax_amount + deal_data.tax_info.doc_fee
        deal == [deal_data EXCEPT !.trade_in = trade_in]
        financed ==
            LET terms == deal.finance_terms[1]
                amount_financed == total_with_tax - terms.down_payment
                monthly_payment == DeskingService_calculate_finance_payment(
                    amount_financed, terms.interest_rate, terms.term_months,
                    terms.payment_frequency)
                total_payments == Rat(terms.term_months
                                        * periods_per_year[terms.payment_frequency], 12)
            IN  [deal EXCEPT !.total_amount_financed = RatInt(amount_financed),
                             !.monthly_payment = monthly_payment,
                             !.total_cost = RatAdd(RatMul(monthly_payment, total_payments),
                                                   RatInt(terms.down_payment))]
        leased ==
            LET terms == deal.lease_terms[1]
                lease_payment == calculate_lease_payment(terms).payment
            IN  [deal EXCEPT !.monthly_payment = RatInt(lease_payment),
                             !.total_cost = RatInt(lease_payment * terms.term_months
                                                   + terms.down_payment
                                                   + terms.acquisition_fee)]
        priced ==
            IF deal.deal_type = "cash"
            THEN [deal EXCEPT !.total_cost = RatInt(total_with_tax),
                              !.monthly_payment = RatInt(0)]
            ELSE IF deal.deal_type = "finance" /\ deal.finance_terms # None THEN financed
            ELSE IF deal.deal_type = "lease" /\ deal.lease_terms # None THEN leased
            ELSE deal
    IN  [priced EXCEPT !.id = deal_no,
                       !.dealer_profit = _calculate_dealer_profit(priced)]

\* DeskingService.calculate_deal
calculate_deal(deal_data) ==
    /\ Len(calcs) < MaxCalcs
    /\ IF calculate_deal_raises(deal_data)
       THEN /\ calcs' = calcs
            /\ last' = Reply("calculate_deal", 0, None, 500, FALSE)
       ELSE /\ calcs' = Append(calcs, calculated_deal(deal_data, Len(calcs) + 1))
            /\ last' = Reply("calculate_deal", Len(calcs) + 1, None, 200, FALSE)
    /\ UNCHANGED <<deals, reqs, documents, signature_requests, signatures, inflight, issued>>

\* the document after update_one's $set of the fields of updates
set_fields(deal, updates) ==
    [f \in DOMAIN deal |-> IF f \in DOMAIN updates THEN updates[f] ELSE deal[f]]

\* DeskingService.update_deal: a bare $set, modified_count > 0 is returned
\* (the reply code 200 stands for True, 404 for False)
update_deal(deal_id, updates) ==
    /\ IF deal_id \in 1..Len(calcs) /\ set_fields(calcs[deal_id], updates) # calcs[deal_id]
       THEN /\ calcs' = [calcs EXCEPT ![deal_id] = set_fields(calcs[deal_id], updates)]
            /\ last' = Reply("update_deal", deal_id, None, 200, FALSE)
       ELSE /\ calcs' = calcs
            /\ last' = Reply("update_deal", deal_id, None, 404, FALSE)
    /\ UNCHANGED <<deals, reqs, documents, signature_requests, signatures, inflight, issued>>

\* the requests given to calculate_deal
DeskTaxInfo == [state |-> "CA", tax_rate |-> Rat(725, 100), doc_fee |-> 8500]

DeskTradeUp == Some(TradeInOf(1500000, 1000000, 0))
DeskTradeDown == Some(TradeInOf(1000000, 1500000, 0))

DeskFinance12 ==
    Some([loan_amount |-> 2000000, interest_rate |-> 1200, term_months |-> 2,
          down_payment |-> 500000, payment_frequency |-> "monthly"])
DeskFinanceZeroRate ==
    Some([loan_amount |-> 2000000, interest_rate |-> 0, term_months |-> 36,
          down_payment |-> 0, payment_frequency |-> "biweekly"])
DeskFinanceZeroTerm ==
    Some([loan_amount |-> 2000000, interest_rate |-> 0, term_months |-> 0,
          down_payment |-> 0, payment_frequency |-> "monthly"])

DeskLeaseOf(residual_percentage, term_months, down_payment) ==
    Some([msrp |-> 2800000, cap_cost |-> 2500000,
          residual_percentage |-> residual_percentage,
          money_factor |-> Rat(125, 100000), term_months |-> term_months,
          down_payment |-> down_payment,
          acquisition_fee |-> 59500, disposition_fee |-> 35000])

DeskVsc ==
    <<[name |-> "Extended Vehicle Service Contract", base_cost |-> 200000,
       markup_percentage |-> 30, dealer_cost |-> 200000, customer_price |-> 260000]>>

\* a deal_data dict; the derived fields take their defaults
DealDataOf(deal_type, trade_in, finance_terms, lease_terms, fi_products) ==
    [id |-> 0, deal_type |-> deal_type, vehicle_price |-> 2500000,
     trade_in |-> trade_in, rebates |-> 0, dealer_discount |-> 50000,
     finance_terms |-> finance_terms, lease_terms |-> lease_terms,
     fi_products |-> fi_products, tax_info |-> DeskTaxInfo,
     monthly_payment |-> RatInt(0), total_amount_financed |-> RatInt(0),
     total_cost |-> RatInt(0), dealer_profit |-> RatInt(0)]

DeskFinanceRateZeroTerm ==
    Some([loan_amount |-> 2000000, interest_rate |-> 1200, term_months |-> 0,
          down_payment |-> 0, payment_frequency |-> "monthly"])

\* a deal_data dict in which the caller supplied the derived fields too
DealDataSupplied(deal_type) ==
    [DealDataOf(deal_type, None, None, None, DeskVsc)
        EXCEPT !.monthly_payment = RatInt(50000),
               !.total_amount_financed = RatInt(2000000),
               !.total_cost = RatInt(100)]

DealDatas ==
    {DealDataSupplied("cash"), DealDataSupplied("finance"),
     DealDataOf("finance", None, DeskFinanceRateZeroTerm, None, <<>>),
     DealDataOf("finance", DeskTradeUp, DeskFinance12, None, <<>>),
     DealDataOf("cash", None, None, None, <<>>),
     DealDataOf("cash", DeskTradeUp, None, None, DeskVsc),
     DealDataOf("cash", DeskTradeDown, DeskFinance12, None, <<>>),
     DealDataOf("finance", None, DeskFinance12, None, DeskVsc),
     DealDataOf("finance", DeskTradeUp, DeskFinanceZeroRate, None, <<>>),
     DealDataOf("finance", None, None, None, <<>>),
     DealDataOf("finance", None, DeskFinanceZeroTerm, None, <<>>),
     DealDataOf("lease", None, None, DeskLeaseOf(60, 36, 200000), <<>>),
     DealDataOf("lease", DeskTradeDown, None, DeskLeaseOf(100, 36, 0), DeskVsc),
     DealDataOf("lease", None, None, DeskLeaseOf(60, 0, 0), <<>>),
     DealDataOf("finance", None, DeskFinance12, DeskLeaseOf(60, 36, 200000), <<>>),
     DealDataOf("lease", None, DeskFinance12, DeskLeaseOf(60, 36, 200000), <<>>)}

\* the updates given to update_deal, and the ids they address
DeskUpdates == {[vehicle_price |-> 3000000]}
CalcIds == 1..MaxCalcs

(***************************************************************************)
(* Specifications                                                          *)
(***************************************************************************)
Init ==
    /\ deals = <<>>
    /\ reqs = <<>>
    /\ calcs = <<>>
    /\ documents = <<>>
    /\ signature_requests = <<>>
    /\ signatures = <<>>
    /\ inflight = {}
    /\ issued = <<>>
    /\ last = Reply("none", 0, None, 0, FALSE)

CreateDeal == \E deal_data \in DealCreates : create_deal(deal_data, MaxDeals)
UpdateDealStatus == \E deal_id \in DealIds, status \in DealStatus :
                        update_deal_status(deal_id, status)
AddFinanceTerms == \E deal_id \in DealIds, finance_request \in FinanceRequests :
                        add_finance_terms(deal_id, finance_request)
UpdateMenuSelection == \E deal_id \in DealIds : \E selected_vsc_id \in VscIds(deal_id),
                          include_gap \in BOOLEAN, gid \in GapIds :
                        update_menu_selection(deal_id, selected_vsc_id, include_gap, gid)

GetDeal == \E deal_id \in DealIds : get_deal(deal_id)
GetDealMenu == \E deal_id \in DealIds, gid \in GapIds : get_deal_menu(deal_id, gid)

Next == \/ CreateDeal \/ UpdateDealStatus \/ AddFinanceTerms \/ UpdateMenuSelection
        \/ GetDeal \/ GetDealMenu

Spec == Init /\ [][Next]_vars

\* creation only, with every trade-in variant
CreateAnyDeal == \E deal_data \in AllDealCreates : create_deal(deal_data, MaxCreated)
NextCreate == CreateAnyDeal
SpecCreate == Init /\ [][NextCreate]_vars

\* creation only, for customers of every state
CreateTaxedDeal == \E deal_data \in TaxDealCreates : create_deal(deal_data, MaxTaxed)
NextTax == CreateTaxedDeal
SpecTax == Init /\ [][NextTax]_vars

\* generate_gap_option alone
GapQuote == \E loan_amount \in GapLoans, vehicle_value \in GapVehicleValues, gid \in GapIds :
                gap_quote(loan_amount, vehicle_value, gid)
NextGap == GapQuote
SpecGap == Init /\ [][NextGap]_vars

\* documents and e-signatures of a deal
GenerateDealDocuments == \E deal_id \in DealIds, document_types \in DocumentTypeLists :
                            generate_deal_documents(deal_id, document_types)
CreateSignatureRequest == \E document_id \in DocumentIds, signers \in SignerLists :
                            create_signature_request(document_id, signers)
SignDocument == \E request_id \in SignatureRequestIds, signer_email \in SignerEmails :
                            sign_document(request_id, signer_email)
NextSign == CreateDeal \/ GenerateDealDocuments \/ CreateSignatureRequest \/ SignDocument
SpecSign == Init /\ [][NextSign]_vars

\* one deal and concurrent requests on it
CreateOneDeal == Len(deals) = 0 /\ CreateDeal
MenuSelectionRead == \E selection \in ConcurrentSelections : menu_selection_read(1, selection)
MenuSelectionWrite == \E request \in inflight, gid \in GapIds :
                         menu_selection_write(request, gid)
FinanceTermsWrite == \E finance_request \in ConcurrentFinanceRequests :
                         finance_terms_write(1, finance_request)
NextConcurrent == \/ CreateOneDeal \/ MenuSelectionRead \/ MenuSelectionWrite
                  \/ FinanceTermsWrite
SpecConcurrent == Init /\ [][NextConcurrent]_vars

\* DeskingService alone
CalculateDeal == \E deal_data \in DealDatas : calculate_deal(deal_data)
UpdateDeal == \E deal_id \in CalcIds, updates \in DeskUpdates : update_deal(deal_id, updates)
NextDesk == CalculateDeal \/ UpdateDeal
SpecDesk == Init /\ [][NextDesk]_vars

(***************************************************************************)
(* Properties of the deals collection                                      *)
(***************************************************************************)
StoredDeals == 1..Len(deals)

Terminal == {"completed", "cancelled"}

\* the reply in `last` answers a menu selection addressed to the stored deal d
MenuSelectionOn(reply, d) ==
    /\ reply.op = "update_menu_selection"
    /\ reply.deal_id = d

\* the id is the id of no option of the deal's generated menu
NotInMenu(deal, vsc) ==
    /\ vsc # None
    /\ \A k \in 1..Len(deal.vsc_options) : Some(deal.vsc_options[k].id) # vsc

\* C1: after every step, every stored deal reconciles:
\* total_deal_amount = total_vehicle_price + total_fees_taxes + total_fi_products
C1_Reconciliation ==
    \A d \in StoredDeals :
        deals[d].total_deal_amount =
            deals[d].total_vehicle_price + deals[d].total_fees_taxes
            + deals[d].total_fi_products

\* a deal that was financed, moved on in status and carries F&I products
C1_Witness ==
    \E d \in StoredDeals :
        /\ deals[d].total_fi_products > 0
        /\ deals[d].finance_terms # None
        /\ deals[d].status # "pending"
        /\ deals[d].gap_option # None

\* C2: a deal in status completed or cancelled keeps that status in every
\* later step
C2_TerminalKept ==
    [][\A d \in StoredDeals :
         deals[d].status \in Terminal => deals'[d].status = deals[d].status]_vars

AllowedTransition(from, to) ==
    \/ from = "pending" /\ to = "in_progress"
    \/ from = "in_progress" /\ to \in Terminal

\* C3: a deal is created pending, and a step changes a status only along
\* pending -> in_progress -> completed | cancelled
C3_StatusMachine ==
    [][/\ \A d \in StoredDeals :
            \/ deals'[d].status = deals[d].status
            \/ AllowedTransition(deals[d].status, deals'[d].status)
       /\ \A d \in 1..Len(deals') : d \notin StoredDeals => deals'[d].status = "pending"]_vars

\* C4: a menu selection whose selected_vsc_id is the id of no option of the
\* deal's menu is answered with an error
C4_UnknownVscRejected ==
    \A d \in StoredDeals :
        MenuSelectionOn(last, d) /\ NotInMenu(deals[d], last.vsc) => last.code # 200

\* C5: a menu selection whose selected_vsc_id is not in the deal's menu leaves
\* selected_vsc, gap_option, total_fi_products and total_deal_amount as they were
C5_UnknownVscNoMutation ==
    [][\A d \in StoredDeals :
         MenuSelectionOn(last', d) /\ NotInMenu(deals[d], last'.vsc) =>
            /\ deals'[d].selected_vsc = deals[d].selected_vsc
            /\ deals'[d].gap_option = deals[d].gap_option
            /\ deals'[d].total_fi_products = deals[d].total_fi_products
            /\ deals'[d].total_deal_amount = deals[d].total_deal_amount]_vars

\* C6: no stored DealCalculation carries finance terms and lease terms at the
\* same time: calculate_deal rejects such input and stores no deal
C6_OneFinancingBranch ==
    \A c \in 1..Len(calcs) :
        calcs[c].finance_terms = None \/ calcs[c].lease_terms = None

\* C7: the net_trade_value of every stored trade-in is >= 0
C7_TradeInFloor ==
    /\ \A d \in StoredDeals :
         deals[d].trade_in # None => deals[d].trade_in[1].net_trade_value >= 0
    /\ \A c \in 1..Len(calcs) :
         calcs[c].trade_in # None => calcs[c].trade_in[1].net_trade_value >= 0

\* two create requests that differ at most in the net_trade_value sent
SameButNet(a, b) ==
    /\ a.customer = b.customer
    /\ a.vehicle = b.vehicle
    /\ a.trade_in # None
    /\ b.trade_in # None
    /\ a.trade_in[1].estimated_value = b.trade_in[1].estimated_value
    /\ a.trade_in[1].payoff_amount = b.trade_in[1].payoff_amount

\* C8: deals created from requests that differ only in the net_trade_value
\* sent by the caller store the same net_trade_value and the same
\* total_vehicle_price, which is selling_price minus the net trade value
C8_NetTradeRecomputed ==
    \A i \in StoredDeals, j \in StoredDeals :
        SameButNet(reqs[i], reqs[j]) =>
            /\ deals[i].trade_in[1].net_trade_value = deals[j].trade_in[1].net_trade_value
            /\ deals[i].total_vehicle_price = deals[j].total_vehicle_price
            /\ deals[i].total_vehicle_price =
                 deals[i].vehicle.selling_price - deals[i].trade_in[1].net_trade_value

\* two stored deals whose requests carried different caller net_trade_values
C8_Witness ==
    \E i \in StoredDeals, j \in StoredDeals :
        /\ SameButNet(reqs[i], reqs[j])
        /\ reqs[i].trade_in[1].net_trade_value # reqs[j].trade_in[1].net_trade_value
        /\ reqs[i].trade_in[1].net_trade_value
             # reqs[i].trade_in[1].estimated_value - reqs[i].trade_in[1].payoff_amount

\* the prices of the products a deal has selected
SelectedPrices(deal) ==
    LET sel == {k \in 1..Len(deal.vsc_options) :
                  Some(deal.vsc_options[k].id) = deal.selected_vsc}
        vsc == IF sel = {} THEN 0
               ELSE deal.vsc_options[CHOOSE k \in sel : TRUE].final_price
        gap == IF deal.gap_option = None THEN 0 ELSE deal.gap_option[1].final_price
    IN  vsc + gap

\* C9: total_fi_products is the final_price of the option selected_vsc names
\* plus the final_price of the stored gap_option
C9_FiTotalIsSelected ==
    \A d \in StoredDeals : deals[d].total_fi_products = SelectedPrices(deals[d])

\* a deal with a VSC of its menu and a GAP option selected
C9_Witness ==
    \E d \in StoredDeals :
        /\ ~NotInMenu(deals[d], deals[d].selected_vsc)
        /\ deals[d].selected_vsc # None
        /\ deals[d].gap_option # None
        /\ deals[d].total_fi_products
             > deals[d].gap_option[1].final_price

\* the selection a deal carries, the uuid of the GAP option left out
SelectionOf(deal) ==
    [selected_vsc |-> deal.selected_vsc,
     gap_option |-> IF deal.gap_option = None THEN None
                    ELSE Some([deal.gap_option[1] EXCEPT !.id = 0]),
     total_fi_products |-> deal.total_fi_products,
     total_deal_amount |-> deal.total_deal_amount]

\* the deal with the selection create_deal stores: no VSC, no GAP option
Unselected(deal) ==
    [deal EXCEPT !.selected_vsc = None,
                 !.gap_option = None,
                 !.total_fi_products = 0,
                 !.total_deal_amount = deal.total_vehicle_price + deal.total_fees_taxes]

\* C10: a menu selection replaces the selection the deal carried: whatever
\* was selected before, the request ends in the selected_vsc, gap_option,
\* total_fi_products and total_deal_amount it ends in on the deal with nothing
\* selected, so select(v1, g1); select(v2, g2) ends as select(v2, g2) alone;
\* and select(null, false) ends with total_fi_products = 0 and
\* total_deal_amount = total_vehicle_price + total_fees_taxes
C10_SelectionReplaces ==
    [][\A d \in StoredDeals :
         MenuSelectionOn(last', d) /\ last'.code = 200 =>
            /\ \A gid \in GapIds :
                 SelectionOf(menu_selected(Unselected(deals[d]), last'.vsc,
                                           deals'[d].gap_option # None, gid))
                   = SelectionOf(deals'[d])
            /\ (last'.vsc = None /\ deals'[d].gap_option = None =>
                  /\ deals'[d].total_fi_products = 0
                  /\ deals'[d].total_deal_amount =
                       deals[d].total_vehicle_price + deals[d].total_fees_taxes)]_vars

\* select(null, false) has just replaced a different selection with products
C10_Witness ==
    \E d \in StoredDeals :
        /\ MenuSelectionOn(last, d)
        /\ last.again
        /\ last.vsc = None
        /\ deals[d].gap_option = None
        /\ deals[d].total_fi_products = 0

\* the fields calculate_deal derives
Derived(deal) ==
    [monthly_payment |-> deal.monthly_payment,
     total_amount_financed |-> deal.total_amount_financed,
     total_cost |-> deal.total_cost,
     dealer_profit |-> deal.dealer_profit]

\* C11: after every calculate_deal and update_deal, the derived fields of
\* every stored DealCalculation are the ones calculate_deal derives from the
\* inputs the deal now stores
C11_DerivedCurrent ==
    \A c \in 1..Len(calcs) :
        ~calculate_deal_raises(calcs[c]) =>
            Derived(calcs[c]) = Derived(calculated_deal(calcs[c], calcs[c].id))

\* the fields of a Deal that a menu selection writes
MenuFields == {"selected_vsc", "gap_option", "total_fi_products", "total_deal_amount"}

\* every field of the stored deal d outside written is as it was
OnlyChanges(d, written) ==
    \A f \in (DOMAIN deals[d]) \ written : deals'[d][f] = deals[d][f]

\* C12: a status changes only in an update_deal_status step on that deal, the
\* tax_calculation never changes, add_finance_terms changes only
\* finance_terms and update_menu_selection only selected_vsc, gap_option,
\* total_fi_products and total_deal_amount, of the deal addressed
C12_FrameOfEndpoints ==
    [][\A d \in StoredDeals :
         /\ deals'[d].status # deals[d].status =>
               last'.op = "update_deal_status" /\ last'.deal_id = d
         /\ deals'[d].tax_calculation = deals[d].tax_calculation
         /\ last'.op = "add_finance_terms" =>
               OnlyChanges(d, IF last'.deal_id = d THEN {"finance_terms"} ELSE {})
         /\ last'.op = "update_menu_selection" =>
               OnlyChanges(d, IF last'.deal_id = d THEN MenuFields ELSE {})]_vars

\* finance terms have just been attached to a completed deal with a VSC selected
C12_Witness ==
    \E d \in StoredDeals :
        /\ last.op = "add_finance_terms"
        /\ last.deal_id = d
        /\ last.code = 200
        /\ deals[d].finance_terms # None
        /\ deals[d].status = "completed"
        /\ deals[d].selected_vsc # None

\* C13: sales tax is charged on the price after the trade-in: selling_price
\* 25000, trade-in 15000 with payoff 10000, customer in CA give
\* total_vehicle_price 20000 and sales_tax_amount 1450.00
C13_TaxAfterTradeIn ==
    \A d \in StoredDeals :
        /\ reqs[d].customer.state = Some("CA")
        /\ reqs[d].vehicle.selling_price = 2500000
        /\ reqs[d].trade_in # None
        /\ reqs[d].trade_in[1].estimated_value = 1500000
        /\ reqs[d].trade_in[1].payoff_amount = 1000000
        => /\ deals[d].total_vehicle_price = 2000000
           /\ deals[d].tax_calculation.sales_tax_amount = 145000

\* the jurisdiction table: sales tax rates in hundredths of a percent
JurisdictionRate ==
    [st \in {"CA", "TX", "FL", "NY"} |->
        CASE st = "CA" -> 725 [] st = "TX" -> 625 [] st = "FL" -> 600 [] st = "NY" -> 800]

\* the request named a state of the jurisdiction table
InTable(req) ==
    /\ req.customer.state # None
    /\ req.customer.state[1] \in DOMAIN JurisdictionRate

\* C14: a deal created for a customer in CA, TX, FL or NY carries that state's
\* rate and a sales_tax_amount of selling_price times the rate, to the cent
C14_StateRate ==
    \A d \in StoredDeals :
        InTable(reqs[d]) =>
            LET rate == JurisdictionRate[reqs[d].customer.state[1]]
            IN  /\ deals[d].tax_calculation.sales_tax_rate = Rat(rate, 10000)
                /\ deals[d].tax_calculation.sales_tax_amount =
                     Round(Rat(reqs[d].vehicle.selling_price * rate, 10000))

\* a deal for a NY customer with a trade-in, taxed 2000.00 on 25000
C14_Witness ==
    \E d \in StoredDeals :
        /\ reqs[d].customer.state = Some("NY")
        /\ reqs[d].trade_in # None
        /\ deals[d].tax_calculation.sales_tax_amount = 200000

\* C15: a customer with a state outside the table, or with no state, is given
\* the default jurisdiction: rate 0.0725, title 23, license 65, doc 85; the
\* rate and the fees are never zero and the creation does not fail
C15_DefaultJurisdiction ==
    /\ \A d \in StoredDeals :
          /\ ~InTable(reqs[d]) =>
                /\ deals[d].tax_calculation.sales_tax_rate = Rat(725, 10000)
                /\ deals[d].tax_calculation.title_fee = 2300
                /\ deals[d].tax_calculation.license_fee = 6500
                /\ deals[d].tax_calculation.doc_fee = 8500
          /\ deals[d].tax_calculation.sales_tax_rate[1] > 0
          /\ deals[d].tax_calculation.total_fees > deals[d].tax_calculation.sales_tax_amount
    /\ last.op = "create_deal" => last.code = 200 /\ last.deal_id = Len(deals)

\* deals stored for a customer of an unknown state and for one of no state
C15_Witness ==
    \E d \in StoredDeals, e \in StoredDeals :
        /\ reqs[d].customer.state = Some("ZZ")
        /\ reqs[e].customer.state = None
        /\ deals[d].tax_calculation = deals[e].tax_calculation

\* calculate_deal has just returned a deal
Returned == last.op = "calculate_deal" /\ last.code = 200

\* the adjusted price plus tax and fees, from the inputs a deal stores
TotalWithTax(deal) ==
    LET adjusted == deal.vehicle_price - deal.dealer_discount - deal.rebates
                    - (IF deal.trade_in # None THEN deal.trade_in[1].net_trade_value
                       ELSE 0)
                    + SumOver(deal.fi_products, "customer_price")
    IN  adjusted + Round(RatMul(Rat(adjusted, 100), deal.tax_info.tax_rate))
        + deal.tax_info.doc_fee

\* the number of payments of finance terms
NumberOfPayments(terms) ==
    Rat(terms.term_months * periods_per_year[terms.payment_frequency], 12)

\* C16: a returned deal of type finance with finance terms has
\* total_amount_financed = total_with_tax - down_payment, the calculator's
\* payment of that amount at the terms' rate, term and frequency, and
\* total_cost = payment times number of payments plus the down payment
C16_FinanceBranch ==
    Returned /\ calcs[last.deal_id].deal_type = "finance"
             /\ calcs[last.deal_id].finance_terms # None =>
        LET deal == calcs[last.deal_id]
            terms == deal.finance_terms[1]
            financed == TotalWithTax(deal) - terms.down_payment
        IN  /\ deal.total_amount_financed = RatInt(financed)
            /\ deal.monthly_payment =
                 DeskingService_calculate_finance_payment(financed, terms.interest_rate,
                     terms.term_months, terms.payment_frequency)
            /\ deal.total_cost = RatAdd(RatMul(deal.monthly_payment, NumberOfPayments(terms)),
                                        RatInt(terms.down_payment))

\* a finance deal with a down payment and F&I products has just been returned
C16_Witness ==
    /\ Returned
    /\ calcs[last.deal_id].deal_type = "finance"
    /\ calcs[last.deal_id].finance_terms # None
    /\ calcs[last.deal_id].finance_terms[1].down_payment > 0
    /\ calcs[last.deal_id].fi_products # <<>>
    /\ RatLess(RatInt(0), calcs[last.deal_id].monthly_payment)

\* C17: a returned deal with neither finance nor lease terms has
\* monthly_payment = 0 and total_cost = total_with_tax, whatever its
\* deal_type and whatever derived values the caller supplied
C17_CashWithoutTerms ==
    Returned /\ calcs[last.deal_id].finance_terms = None
             /\ calcs[last.deal_id].lease_terms = None =>
        /\ calcs[last.deal_id].monthly_payment = RatInt(0)
        /\ calcs[last.deal_id].total_cost = RatInt(TotalWithTax(calcs[last.deal_id]))

\* -dealer_discount + sum of (customer_price - dealer_cost)
FrontAndFiProfit(deal) ==
    SumOver(deal.fi_products, "customer_price") - SumOver(deal.fi_products, "dealer_cost")
    - deal.dealer_discount

\* C18 as stated: dealer_profit = -dealer_discount + sum of the F&I margins
\* + financeReserve, financeReserve being total_amount_financed x 0.015 when
\* deal_type is finance and 0 otherwise
C18_DealerProfitAsStated ==
    Returned =>
        LET deal == calcs[last.deal_id]
            financeReserve == IF deal.deal_type = "finance"
                              THEN RatMul(deal.total_amount_financed, Rat(15, 1000))
                              ELSE RatInt(0)
        IN  deal.dealer_profit = RatAdd(RatInt(FrontAndFiProfit(deal)), financeReserve)

\* C18: dealer_profit is -dealer_discount + sum of the F&I margins
\* + financeReserve rounded to cents, financeReserve being
\* total_amount_financed x 0.015 when deal_type is finance and finance terms
\* are present, and 0 otherwise
C18_DealerProfit ==
    Returned =>
        LET deal == calcs[last.deal_id]
            financeReserve == IF deal.deal_type = "finance" /\ deal.finance_terms # None
                              THEN RatMul(deal.total_amount_financed, Rat(15, 1000))
                              ELSE RatInt(0)
        IN  deal.dealer_profit =
              RatInt(Round(RatAdd(RatInt(FrontAndFiProfit(deal)), financeReserve)))

\* a finance deal with F&I products whose reserve is not a whole cent
C18_Witness ==
    /\ Returned
    /\ calcs[last.deal_id].deal_type = "finance"
    /\ calcs[last.deal_id].finance_terms # None
    /\ calcs[last.deal_id].fi_products # <<>>
    /\ RatMul(calcs[last.deal_id].total_amount_financed, Rat(15, 1000))[2] # 1

\* C19: at rate 0, for every payment frequency, the payment is
\* principal / totalPeriods rounded to cents, where
\* totalPeriods = term_months x periodsPerYear / 12
C19_ZeroRatePayment ==
    Returned /\ calcs[last.deal_id].deal_type = "finance"
             /\ calcs[last.deal_id].finance_terms # None
             /\ calcs[last.deal_id].finance_terms[1].interest_rate = 0 =>
        LET deal == calcs[last.deal_id]
            totalPeriods == NumberOfPayments(deal.finance_terms[1])
        IN  deal.monthly_payment =
              RatInt(Round(RatDiv(deal.total_amount_financed, totalPeriods)))

\* C20: a term of 0 months is a defined branch: no calculation fails
C20_ZeroTermDefined ==
    last.op = "calculate_deal" => last.code = 200

\* the amortized periodic payment before any rounding
UnroundedPayment(principal, terms) ==
    LET r == Rat(terms.interest_rate, 10000 * periods_per_year[terms.payment_frequency])
        growth == RatPow(RatAdd(RatInt(1), r), NumberOfPayments(terms)[1])
    IN  RatDiv(RatMul(principal, RatMul(r, growth)), RatSub(growth, RatInt(1)))

\* C21: the total_cost of a deal financed at a positive rate is computed from
\* the unrounded payment: round(unrounded payment x number of payments
\* + down payment), not from the rounded monthly_payment
C21_RoundedOnlyWhenReported ==
    Returned /\ calcs[last.deal_id].deal_type = "finance"
             /\ calcs[last.deal_id].finance_terms # None
             /\ calcs[last.deal_id].finance_terms[1].interest_rate > 0 =>
        LET deal == calcs[last.deal_id]
            terms == deal.finance_terms[1]
            unrounded == UnroundedPayment(deal.total_amount_financed, terms)
        IN  deal.total_cost =
              RatInt(Round(RatAdd(RatMul(unrounded, NumberOfPayments(terms)),
                                  RatInt(terms.down_payment))))

\* C22: a lease with residual_percentage = 100 has depreciation 0 and a
\* payment that is the monthly finance charge
\* (adjusted cap cost + residual value) x money_factor alone, never negative
C22_FullResidualLease ==
    Returned /\ calcs[last.deal_id].deal_type = "lease"
             /\ calcs[last.deal_id].lease_terms # None
             /\ calcs[last.deal_id].lease_terms[1].residual_percentage = 100 =>
        LET deal == calcs[last.deal_id]
            terms == deal.lease_terms[1]
            charge == RatMul(RatInt(terms.cap_cost - terms.down_payment + terms.msrp),
                             terms.money_factor)
        IN  /\ calculate_lease_payment(terms).depreciation = RatInt(0)
            /\ deal.monthly_payment = RatInt(Round(charge))
            /\ ~RatLess(deal.monthly_payment, RatInt(0))

\* the final_price of the option of a deal's menu for a coverage and a term
PriceOf(deal, coverage, term) ==
    LET k == CHOOSE j \in 1..Len(deal.vsc_options) :
                 /\ deal.vsc_options[j].coverage_type = coverage
                 /\ deal.vsc_options[j].term = term
    IN  deal.vsc_options[k].final_price

Terms == {"12_months", "24_months", "36_months", "48_months", "60_months"}
Coverages == {"powertrain", "bumper_to_bumper", "premium"}

\* C23: for every term, the VSC prices of a created deal are strictly ordered
\* premium > bumper_to_bumper > powertrain
C23_CoverageOrdering ==
    \A d \in StoredDeals : \A term \in Terms :
        /\ PriceOf(deals[d], "premium", term) > PriceOf(deals[d], "bumper_to_bumper", term)
        /\ PriceOf(deals[d], "bumper_to_bumper", term) > PriceOf(deals[d], "powertrain", term)

\* menus for both vehicles, the older one priced below the list price
C23_Witness ==
    \E d \in StoredDeals, e \in StoredDeals :
        /\ deals[d].vehicle.year = 2015
        /\ deals[e].vehicle.year = 2022
        /\ PriceOf(deals[d], "premium", "60_months")
             < PriceOf(deals[e], "premium", "60_months")
        /\ PriceOf(deals[d], "powertrain", "12_months") < 89500 + 22375

\* C24: vsc_options holds exactly 15 options, one for each pair of a coverage
\* type and a term, with pairwise distinct ids, and is the menu create_deal
\* generated: no operation has added, removed or repriced an option
C24_MenuOfFifteen ==
    \A d \in StoredDeals :
        LET options == deals[d].vsc_options
        IN  /\ Len(options) = 15
            /\ \A coverage \in Coverages, term \in Terms :
                  Cardinality({k \in 1..Len(options) :
                                 /\ options[k].coverage_type = coverage
                                 /\ options[k].term = term}) = 1
            /\ \A j \in 1..Len(options), k \in 1..Len(options) :
                  j # k => options[j].id # options[k].id
            /\ options = new_deal(reqs[d], d).vsc_options

\* a deal that has been financed, moved on and given a VSC from its menu
C24_Witness ==
    \E d \in StoredDeals :
        /\ deals[d].finance_terms # None
        /\ deals[d].status = "in_progress"
        /\ deals[d].selected_vsc # None
        /\ ~NotInMenu(deals[d], deals[d].selected_vsc)

\* C28: a stored gap_option is priced on the deal's current loan basis: it
\* is, but for its uuid, the GAP option get_deal_menu shows for the deal
C28_GapOnCurrentBasis ==
    \A d \in StoredDeals :
        deals[d].gap_option # None =>
            \A gid \in GapIds :
                [deals[d].gap_option[1] EXCEPT !.id = gid]
                  = generate_gap_option(gap_loan_amount(deals[d]),
                                        deals[d].vehicle.selling_price, gid)

\* C29: once a deal is completed or cancelled, no step changes its
\* finance_terms, selected_vsc, gap_option, total_fi_products or
\* total_deal_amount
C29_TerminalFrozen ==
    [][\A d \in StoredDeals :
         deals[d].status \in Terminal =>
            /\ deals'[d].finance_terms = deals[d].finance_terms
            /\ deals'[d].selected_vsc = deals[d].selected_vsc
            /\ deals'[d].gap_option = deals[d].gap_option
            /\ deals'[d].total_fi_products = deals[d].total_fi_products
            /\ deals'[d].total_deal_amount = deals[d].total_deal_amount]_vars

\* the operations that address one deal by its id
AddressedOps ==
    {"get_deal", "update_deal_status", "add_finance_terms", "get_deal_menu",
     "update_menu_selection"}

\* C26: an operation addressed to a deal id that does not exist reports
\* not-found, leaves the stored deals as they were and creates no deal
C26_NotFound ==
    [][last'.op \in AddressedOps /\ ~Exists(last'.deal_id) =>
          /\ last'.code = 404
          /\ deals' = deals]_vars

\* 5% of a loan amount, held to 695 at least and 1295 at most
ClampedFivePercent(loan_amount) ==
    LET five == Rat(loan_amount * 5, 100)
    IN  IF RatLess(five, RatInt(69500)) THEN RatInt(69500)
        ELSE IF RatLess(RatInt(129500), five) THEN RatInt(129500)
        ELSE five

\* C25: a GAP quote has 695 <= base_cost <= 1295, base_cost = 5% of the loan
\* inside the range (695 for 5,000 and 1,295 for 50,000), final_price = the
\* base cost x 1.30 to the cent, and loan_to_value_ratio = 0 for a vehicle
\* value of 0
C25_GapQuote ==
    last.op = "generate_gap_option" =>
        LET quote == last.body.gap_option
            loan == last.body.loan_amount
            base == ClampedFivePercent(loan)
        IN  /\ last.code = 200
            /\ 69500 <= quote.base_cost /\ quote.base_cost <= 129500
            /\ quote.base_cost = Round(base)
            /\ (1390000 <= loan /\ loan <= 2590000 =>
                   quote.base_cost = Round(Rat(loan * 5, 100)))
            /\ (loan = 500000 => quote.base_cost = 69500)
            /\ (loan = 5000000 => quote.base_cost = 129500)
            /\ quote.final_price = Round(RatMul(base, Rat(130, 100)))
            /\ (last.body.vehicle_value = 0 => quote.loan_to_value_ratio = 0)

\* a loan of 50,000 on a vehicle of value 0 has been quoted at the upper end
C25_Witness ==
    /\ last.op = "generate_gap_option"
    /\ last.body.loan_amount = 5000000
    /\ last.body.vehicle_value = 0
    /\ last.body.gap_option.base_cost = 129500
    /\ last.body.gap_option.final_price = 168350
    /\ last.body.gap_option.loan_to_value_ratio = 0

\* every signer listed in the request has a signature stored for it
AllSigned(request) ==
    \A k \in 1..Len(request.signers) :
        \E sig \in signatures_of(signatures, request.id) :
            sig.signer_email = request.signers[k]

\* C30: a signature request is completed, and its document signed, only
\* when every signer it lists has submitted a signature
C30_AllSignersSigned ==
    /\ \A r \in 1..Len(signature_requests) :
          signature_requests[r].status = "completed" => AllSigned(signature_requests[r])
    /\ \A doc \in 1..Len(documents) :
          documents[doc].status = "signed" =>
              \E r \in 1..Len(signature_requests) :
                  /\ signature_requests[r].document_id = doc
                  /\ AllSigned(signature_requests[r])

\* the deal after one request has run alone
AfterRequest(deal, request, gid) ==
    IF request.kind = "finance"
    THEN [deal EXCEPT !.finance_terms = Some(new_finance_terms(request.finance_request))]
    ELSE menu_selected(deal, request.selection.selected_vsc_id,
                       request.selection.include_gap, gid)

\* the deal after the requests issued have run one after the other in an order
RECURSIVE AfterRequests(_, _, _, _)
AfterRequests(deal, order, k, gid) ==
    IF k > Len(issued) THEN deal
    ELSE AfterRequests(AfterRequest(deal, issued[order[k]], gid), order, k + 1, gid)

Orders(n) == {order \in [1..n -> 1..n] : \A j, k \in 1..n : j # k => order[j] # order[k]}

\* C27: with add_finance_terms and update_menu_selection requests on one deal
\* interleaved, every stored state reconciles and, once every request has
\* written, the deal is in a state that the same requests produce when run
\* one after the other in some order
C27_Serializable ==
    /\ \A d \in StoredDeals :
          deals[d].total_deal_amount =
              deals[d].total_vehicle_price + deals[d].total_fees_taxes
              + deals[d].total_fi_products
    /\ inflight = {} /\ issued # <<>> =>
          \E order \in Orders(Len(issued)), gid \in GapIds :
              AfterRequests(new_deal(reqs[1], 1), order, 1, gid) = deals[1]

\* a menu selection with GAP has written after finance terms were attached
\* between its read and its write, and no request is left in flight
C27_Witness ==
    /\ inflight = {}
    /\ last.op = "update_menu_selection"
    /\ last.code = 200
    /\ last.body.stale
    /\ deals[1].finance_terms # None
    /\ deals[1].gap_option # None
    /\ Len(issued) = 3

====
